---------------------------- MODULE Spec2Model ----------------------------
(***************************************************************************)
(* Model of the USDA FSA crop-acreage downloader                           *)
(* (src/cx_data_mart/processing/county_fsa/download_county_fsa_acreage.py).*)
(*                                                                         *)
(* The script is single threaded.  One behaviour of Spec is one run of the *)
(* __main__ block: a loop over the target years, each year one call of     *)
(* main().  Every network request is one step; its response is chosen by   *)
(* the environment.  The index document is read front to back, so its      *)
(* elements (section headings and anchors) are drawn one at a time while   *)
(* collect_year_zip_links walks over them.                                 *)
(*                                                                         *)
(* SpecMain is the run over a range of one year, that is one main() call.  *)
(* SpecSelect exercises choose_latest_for_year alone on bounded lists.     *)
(***************************************************************************)
EXTENDS Integers, Sequences, FiniteSets, TLC

VARIABLES
    pc,            \* position of the script
    exit_code,     \* None while running, else Some(process exit status)
    todo,          \* target_years not yet started (the for loop of __main__)
    target_year,   \* argument of the running main()
    outdir_exists, \* whether the output directory exists
    files,         \* the output directory: path -> None (absent) or Some(size)
    files_at_start,\* files as they were when the running main() was called
    stage,         \* last stage of the current cycle that was entered
    index_resp,    \* None, or Some(what the latest GET of the index page ended with)
    headings,      \* h2/h3/h4 elements of the index document read so far
    n_elems,       \* number of index document elements read so far
    a,             \* the anchor collect_year_zip_links has just classified, else None
    classified,    \* anchors of this cycle that passed the year filter
    candidate_year,\* link_year of the anchor whose URL is being resolved, else None
    zip_items,     \* results list of collect_year_zip_links
    absolute_url,  \* argument of the latest validate_or_resolve_zip_url call
    zip_url,       \* None while that call runs or when it returned None, else Some(url)
    candidates,    \* landing-page candidates still to validate
    reqs,          \* requests issued by the latest validate_or_resolve_zip_url call
    doc_soup,      \* Some(anchors of the parsed landing page) until its candidates are probed
    latest,        \* result of choose_latest_for_year
    download_url,  \* url of main(): latest["url"], the URL stream_download is given
    out_path,      \* destination of the download
    dl_requests,   \* streaming GETs issued by stream_download in this cycle
    downloaded,    \* bytes written by stream_download
    reported,      \* None, or Some(years printed as available on the page)
    returned,      \* years whose main() returned normally
    calls,         \* number of calls made of the function exercised on its own
    context,       \* SpecParse: the text given to parse_date_from_text
    asof_dt,       \* SpecParse: what parse_date_from_text returned
    retry,         \* SpecRetry: the counters left of the mounted Retry
    request        \* SpecRetry: one http_get or http_head call and its attempts

vars == <<pc, exit_code, todo, target_year, outdir_exists, files,
          files_at_start, stage, index_resp, headings, n_elems, a, classified, candidate_year,
          zip_items, absolute_url, zip_url, candidates, reqs, doc_soup, latest,
          download_url, out_path, dl_requests, downloaded,
          reported, returned, calls, context, asof_dt, retry, request>>

\* the variables of the specifications that exercise one function on its own
unit_vars == <<calls, context, asof_dt, retry, request>>

-----------------------------------------------------------------------------
(* Bounds of the model *)

NumYears == 2
MaxPage == 2
MaxDate == 2
MaxLandingAnchors == 2
MaxChunks == 1
MaxItems == 3
MaxCalls == 2
MaxPhrases == 2

(* Program constants *)

StartYear == 2007
HeadingLimit == 8

-----------------------------------------------------------------------------
(* Python's None and a present value *)

None == <<>>
Some(x) == <<x>>

Last(s) == s[Len(s)]

RECURSIVE SeqsUpTo(_, _)
SeqsUpTo(S, n) ==
    IF n = 0 THEN {<<>>}
    ELSE LET shorter == SeqsUpTo(S, n - 1)
         IN shorter \cup {Append(s, x) : s \in {t \in shorter : Len(t) = n - 1}, x \in S}

-----------------------------------------------------------------------------
(* Values *)

TargetYears == StartYear .. (StartYear + NumYears - 1)
Dates == 1 .. MaxDate
OptDate == {None} \cup {Some(d) : d \in Dates}
\* the years the index page speaks of: the first target year and the one after it
PageYears == {StartYear, StartYear + 1}
OptYear == {None} \cup {Some(y) : y \in PageYears}

\* hrefs of the index page and of landing pages, already joined to the page URL
Urls == {"/files/a.zip", "/documents/1", "/download/3", "/about.html"}

\* url.lower().endswith(".zip") or url.lower().endswith("zip")
EndsWithZip(url) == url \in {"/files/a.zip"}

ZIP_ENDING_PAT(href) == href \in {"/files/a.zip"}

DOCS_PATH_PAT(href) == href \in {"/documents/1"}

\* "download" in href.lower()
HrefHasDownload(href) == href \in {"/download/3"}

urljoin(base, href) == href

\* a test of the href that lets every anchor through
every_href(href) == TRUE

is_zip_like_href(href) ==
    IF ZIP_ENDING_PAT(href) THEN TRUE
    ELSE IF DOCS_PATH_PAT(href) THEN TRUE
    ELSE FALSE

-----------------------------------------------------------------------------
(* choose_latest_for_year *)

ResolvedItem(year, url, asof) == [year |-> year, url |-> url, asof |-> asof]

\* a sort that is not stable: z goes in front of the elements that have its key
RECURSIVE InsertUnstable(_, _)
InsertUnstable(sorted, z) ==
    IF sorted = <<>> THEN <<z>>
    ELSE IF Head(sorted).asof[1] < z.asof[1]
         THEN <<Head(sorted)>> \o InsertUnstable(Tail(sorted), z)
         ELSE <<z>> \o sorted

\* list.sort(key=...) is stable: z goes behind every element whose key is <= its own
RECURSIVE Insert(_, _)
Insert(sorted, z) ==
    IF sorted = <<>> THEN <<z>>
    ELSE IF Head(sorted).asof[1] <= z.asof[1]
         THEN <<Head(sorted)>> \o Insert(Tail(sorted), z)
         ELSE <<z>> \o sorted

RECURSIVE SortByAsof(_)
SortByAsof(items) ==
    IF items = <<>> THEN <<>>
    ELSE Insert(SortByAsof(SubSeq(items, 1, Len(items) - 1)), Last(items))

\* the dated entries taken from the wrong end of the sorted list
choose_oldest_for_year(items) ==
    IF items = <<>> THEN None
    ELSE LET dated == SelectSeq(items, LAMBDA z : z.asof # None)
         IN IF dated # <<>> THEN Some(SortByAsof(dated)[1])
            ELSE Some(items[1])

\* the undated fallback taking the last entry instead of the first
choose_last_when_undated(items) ==
    IF items = <<>> THEN None
    ELSE LET dated == SelectSeq(items, LAMBDA z : z.asof # None)
         IN IF dated # <<>> THEN Some(Last(SortByAsof(dated)))
            ELSE Some(Last(items))

\* no fallback for a list without dates
choose_dated_only(items) ==
    IF items = <<>> THEN None
    ELSE LET dated == SelectSeq(items, LAMBDA z : z.asof # None)
         IN IF dated # <<>> THEN Some(Last(SortByAsof(dated)))
            ELSE None

choose_latest_for_year(items) ==
    IF items = <<>> THEN None
    ELSE LET dated == SelectSeq(items, LAMBDA z : z.asof # None)
         IN IF dated # <<>> THEN Some(Last(SortByAsof(dated)))
            ELSE IF Len(items) = 1 THEN Some(items[1])
            ELSE Some(items[1])

-----------------------------------------------------------------------------
(* Dates in texts *)

\* A text is None, or a string: the empty one, or one that holds the phrases
\* "<word> <day>, <year>" listed, each after the words "as of" or not.  The
\* phrases all name the same four digit year, so a date is its day of that year.
TextNone == [is_none |-> TRUE, empty |-> FALSE, phrases |-> <<>>]
EmptyText == [is_none |-> FALSE, empty |-> TRUE, phrases |-> <<>>]
Text(phrases) == [is_none |-> FALSE, empty |-> FALSE, phrases |-> phrases]

MonthTokens == {"January", "Jan.", "Jan", "Sept", "Sept.", "Smarch"}
Days == (1 .. MaxDate) \cup {31}
Phrases == [as_of : BOOLEAN, month : MonthTokens, day : Days]
Texts == {TextNone, EmptyText} \cup {Text(ps) : ps \in SeqsUpTo(Phrases, MaxPhrases)}

MONTH_FIX ==
    ("Sept" :> "September") @@ ("Sep." :> "September") @@ ("Sep" :> "September") @@
    ("Aug." :> "August") @@ ("Oct." :> "October") @@ ("Nov." :> "November") @@
    ("Dec." :> "December") @@ ("Jan." :> "January") @@ ("Feb." :> "February") @@
    ("Mar." :> "March") @@ ("Apr." :> "April") @@ ("Jun." :> "June") @@
    ("Jul." :> "July")

\* the month names %B accepts, and the days of each month and before it in a
\* year that is no leap year
FullMonths ==
    <<"January", "February", "March", "April", "May", "June", "July", "August",
      "September", "October", "November", "December">>
DaysIn == <<31, 28, 31, 30, 31, 30, 31, 31, 30, 31, 30, 31>>
DaysBefore == <<0, 31, 59, 90, 120, 151, 181, 212, 243, 273, 304, 334>>

\* tokens[0] = MONTH_FIX.get(first, first)
normalize_months(date_text) ==
    IF date_text.month \in DOMAIN MONTH_FIX
    THEN [date_text EXCEPT !.month = MONTH_FIX[date_text.month]]
    ELSE date_text

\* datetime.strptime(date_str, "%B %d, %Y"): the date, or a ValueError
strptime(date_str) ==
    IF \E m \in DOMAIN FullMonths :
          FullMonths[m] = date_str.month /\ date_str.day <= DaysIn[m]
    THEN LET m == CHOOSE m \in DOMAIN FullMonths : FullMonths[m] = date_str.month
         IN [raised |-> FALSE, value |-> Some(DaysBefore[m] + date_str.day)]
    ELSE [raised |-> TRUE, value |-> None]

\* AS_OF_PAT.search(text), then DATE_PAT.search(text): group(1) of the match
search_date(text) ==
    LET after_as_of == SelectSeq(text.phrases, LAMBDA ph : ph.as_of)
    IN IF after_as_of # <<>> THEN Some(Head(after_as_of))
       ELSE IF text.phrases # <<>> THEN Some(Head(text.phrases))
       ELSE None

parse_date_from_text(text) ==
    IF text.is_none \/ text.empty THEN None
    ELSE LET m == search_date(text)
         IN IF m = None THEN None
            ELSE LET date_str == normalize_months(m[1])
                 IN IF ~strptime(date_str).raised THEN strptime(date_str).value
                    \* the second attempt, on the string with its blanks tidied
                    ELSE IF ~strptime(date_str).raised THEN strptime(date_str).value
                    ELSE None

-----------------------------------------------------------------------------
(* The index document *)

\* an h2/h3/h4 element: whether its text contains "crop year", and the first
\* 20xx token of its text
Headings ==
    {h \in [crop_year : BOOLEAN, year : OptYear] : ~h.crop_year => h.year = Some(StartYear)}

\* an <a href> element: its href, the year of a leading "YYYY acreage data" in
\* its own text, and the first 20xx token of its context text (which starts
\* with the anchor's own text)
Anchors ==
    {x \in [href : Urls, text_year : OptYear, year_hint : OptYear] :
        x.text_year # None => x.year_hint = x.text_year}

\* the context text of an anchor on the index page: it holds no date phrase, or
\* "as of January d, <year>" for one of the days of Dates
ContextTexts ==
    {Text(<<>>)} \cup {Text(<<[as_of |-> TRUE, month |-> "January", day |-> d]>>) : d \in Dates}

crop_year_from_link_text(anchor) == anchor.text_year

extract_year_hint(anchor) == anchor.year_hint

\* find_all_previous(..., limit=8): the nearest headings first
RECURSIVE ScanPrevious(_, _, _)
ScanPrevious(hs, i, left) ==
    IF i = 0 \/ left = 0 THEN None
    ELSE IF hs[i].crop_year /\ hs[i].year # None THEN hs[i].year
    ELSE ScanPrevious(hs, i - 1, left - 1)

nearest_crop_year_heading(hs) == ScanPrevious(hs, Len(hs), HeadingLimit)

\* the heading asked before the anchor's own text
section_year_first(anchor, hs) ==
    IF nearest_crop_year_heading(hs) # None THEN nearest_crop_year_heading(hs)
    ELSE IF crop_year_from_link_text(anchor) # None THEN crop_year_from_link_text(anchor)
    ELSE extract_year_hint(anchor)

\* the year test letting an anchor of unknown year through
other_year_if_known(year, target) == year # None /\ year # target

\* if link_year != target_year: continue
other_year(year, target) == year # target

\* link_text_year or section_year or year_hint
link_year(anchor, hs) ==
    IF crop_year_from_link_text(anchor) # None THEN crop_year_from_link_text(anchor)
    ELSE IF nearest_crop_year_heading(hs) # None THEN nearest_crop_year_heading(hs)
    ELSE extract_year_hint(anchor)

\* the scan of the headings finding nothing
no_years(hs) == {}

\* the years main() collects from the "crop year" headings of the whole page
all_years(hs) ==
    {hs[i].year[1] : i \in {j \in 1 .. Len(hs) : hs[j].crop_year /\ hs[j].year # None}}

-----------------------------------------------------------------------------
(* Responses *)

ContentTypes == {"text/html", "application/zip", "application/octet-stream"}
Dispositions == {"", "attachment; filename=data.zip"}

\* a raised requests exception, or a response with its status and headers
Raised == [exc |-> TRUE, status_code |-> 0, ct |-> "", cd |-> ""]
Responses ==
    {Raised} \cup [exc : {FALSE}, status_code : {200, 404}, ct : ContentTypes, cd : Dispositions]

ok(resp) == ~resp.exc /\ resp.status_code < 400

is_zip_ct(resp) == resp.ct \in {"application/zip", "application/octet-stream"}

has_zip_name(resp) == resp.cd \in {"attachment; filename=data.zip"}

validate_zip_headers_like_zip(resp, url) ==
    is_zip_ct(resp) \/ has_zip_name(resp) \/ EndsWithZip(url)

\* what the headers of an OK response say, the URL's own text left aside
HeadersSayZip(resp) == ok(resp) /\ (is_zip_ct(resp) \/ has_zip_name(resp))

-----------------------------------------------------------------------------
(* Landing pages *)

LandingHrefs == {"/download/3", "/files/a.zip", "/about.html"}
LandingAnchors ==
    {la \in [text_download : BOOLEAN, href : LandingHrefs] :
        la.text_download => la.href # "/files/a.zip"}
LandingBodies == SeqsUpTo(LandingAnchors, MaxLandingAnchors)

\* the anchor test letting every anchor with an href through
every_anchor(la) == la.href # ""

is_download_anchor(la) ==
    /\ la.href # ""
    /\ la.text_download \/ HrefHasDownload(la.href) \/ EndsWithZip(la.href)

RECURSIVE Dedup(_, _)
Dedup(us, seen) ==
    IF us = <<>> THEN <<>>
    ELSE IF Head(us) \in seen THEN Dedup(Tail(us), seen)
    ELSE <<Head(us)>> \o Dedup(Tail(us), seen \cup {Head(us)})

RECURSIVE JoinAll(_, _)
JoinAll(doc_url, las) ==
    IF las = <<>> THEN <<>>
    ELSE <<urljoin(doc_url, Head(las).href)>> \o JoinAll(doc_url, Tail(las))

landing_candidates(doc_url, body) ==
    Dedup(JoinAll(doc_url, SelectSeq(body, is_download_anchor)), {})

-----------------------------------------------------------------------------
(* Output files *)

outdir == "county_fsa_downloads"

\* as_of_date.strftime('%Y-%m-%d'): the month and the day of the month, after
\* the year all dates share
strftime(date) ==
    LET m == CHOOSE m \in DOMAIN DaysBefore :
                 DaysBefore[m] < date /\ date <= DaysBefore[m] + DaysIn[m]
    IN <<m, date - DaysBefore[m]>>

\* the name without the date, whatever the as-of date is
undated_filename(year, as_of_date) ==
    <<"usda_fsa_crop_acreage_by_crop_county", "_", year, ".zip">>

\* a file name is the sequence of the parts its f-string puts together
descriptive_filename(year, as_of_date) ==
    IF as_of_date # None
    THEN <<"usda_fsa_crop_acreage_by_crop_county", "_", year, "_asof_",
           strftime(as_of_date[1]), ".zip">>
    ELSE <<"usda_fsa_crop_acreage_by_crop_county", "_", year, ".zip">>

path_join(dir, filename) == [dir |-> dir, name |-> filename]

Paths == {path_join(outdir, descriptive_filename(y, d)) : y \in TargetYears, d \in OptDate}

\* the size check without os.remove
verify_keeps_file(fs, path) ==
    IF fs[path] = Some(0) THEN [files |-> fs, exit |-> Some(4)]
    ELSE [files |-> fs, exit |-> None]

\* no size check at all
verify_accepts_empty(fs, path) == [files |-> fs, exit |-> None]

\* os.path.getsize(out_path) == 0: remove the file and exit with status 4
verify_download(fs, path) ==
    IF fs[path] = Some(0) THEN [files |-> [fs EXCEPT ![path] = None], exit |-> Some(4)]
    ELSE [files |-> fs, exit |-> None]

generate_years_str_range(start, end) == [i \in 1 .. (end - start + 1) |-> start + i - 1]

-----------------------------------------------------------------------------
(* The script *)

FSA_PAGE == "/crop-acreage-data"

NoFiles == [p \in Paths |-> None]
\* files of an earlier run, of a size no download of this run has
OldFiles == [p \in Paths |-> Some(MaxChunks + 1)]

\* a fresh main(): nothing scanned, probed, selected or downloaded yet
CycleReset ==
    /\ index_resp' = None
    /\ headings' = <<>>
    /\ n_elems' = 0
    /\ a' = None
    /\ classified' = 0
    /\ candidate_year' = None
    /\ zip_items' = <<>>
    /\ absolute_url' = None
    /\ zip_url' = None
    /\ candidates' = <<>>
    /\ reqs' = <<>>
    /\ doc_soup' = None
    /\ latest' = None
    /\ download_url' = None
    /\ out_path' = None
    /\ dl_requests' = 0
    /\ downloaded' = 0
    /\ reported' = None

Init ==
    /\ pc = "loop"
    /\ exit_code = None
    /\ todo = generate_years_str_range(StartYear, StartYear + NumYears - 1)
    /\ target_year = None
    /\ outdir_exists \in BOOLEAN
    /\ files \in (IF outdir_exists THEN {NoFiles, OldFiles} ELSE {NoFiles})
    /\ files_at_start = files
    /\ stage = "idle"
    /\ index_resp = None
    /\ headings = <<>>
    /\ n_elems = 0
    /\ a = None
    /\ classified = 0
    /\ candidate_year = None
    /\ zip_items = <<>>
    /\ absolute_url = None
    /\ zip_url = None
    /\ candidates = <<>>
    /\ reqs = <<>>
    /\ doc_soup = None
    /\ latest = None
    /\ download_url = None
    /\ out_path = None
    /\ dl_requests = 0
    /\ downloaded = 0
    /\ reported = None
    /\ returned = {}
    /\ calls = 0
    /\ context = None
    /\ asof_dt = None
    /\ retry = None
    /\ request = None

\* sys.exit(code), or an exception nobody catches (status 1): the process ends
Exit(code) ==
    /\ pc' = "exited"
    /\ exit_code' = Some(code)

\* for target_year in target_years: main(target_year, outdir), up to the index fetch
LoopNext ==
    /\ pc = "loop"
    /\ todo # <<>>
    /\ target_year' = Some(Head(todo))
    /\ todo' = Tail(todo)
    /\ outdir_exists' = TRUE
    /\ files_at_start' = files
    /\ stage' = "fetch"
    /\ pc' = "fetch_index"
    /\ CycleReset
    /\ UNCHANGED <<exit_code, files, returned, unit_vars>>

LoopEnd ==
    /\ pc = "loop"
    /\ todo = <<>>
    /\ Exit(0)
    /\ UNCHANGED <<todo, target_year, outdir_exists, files, files_at_start, stage,
                   index_resp, headings, n_elems, a, classified, candidate_year, zip_items,
                   absolute_url,
                   zip_url, candidates, reqs, doc_soup, latest, download_url, out_path,
                   dl_requests,
                   downloaded, reported, returned, unit_vars>>

fetch_unchanged ==
    <<todo, target_year, outdir_exists, files, files_at_start, headings,
      n_elems, a, classified, candidate_year, zip_items, absolute_url, zip_url,
      candidates,
      reqs, doc_soup, latest, download_url, out_path, dl_requests, downloaded,
      reported, returned, unit_vars>>

\* what one http_get(FSA_PAGE) ends with: a raised exception, or a response
IndexResponses ==
    {[exc |-> e, status_code |-> 0] : e \in {"ReadTimeout", "ConnectionError"}}
        \cup {[exc |-> "", status_code |-> c] : c \in {200, 404}}

\* resp.raise_for_status() raises an HTTPError
raise_for_status(resp) == resp.status_code >= 400

\* a handler that catches every exception of the GET
retry_after_any_error(resp) ==
    IF resp.exc # "" THEN "fetch_retry"
    ELSE IF raise_for_status(resp) THEN "exited"
    ELSE "scan"

\* the try block of fetch_index_html: only a ReadTimeout is caught
after_try(resp) ==
    IF resp.exc = "ReadTimeout" THEN "fetch_retry"
    ELSE IF resp.exc # "" THEN "exited"
    ELSE IF raise_for_status(resp) THEN "exited"
    ELSE "scan"

\* the except block of fetch_index_html: nothing is caught
after_except(resp) ==
    IF resp.exc # "" THEN "exited"
    ELSE IF raise_for_status(resp) THEN "exited"
    ELSE "scan"

\* where the script goes after a GET of the index page: on to the scan of the
\* document, into the except block, or out with the exception
FetchGoto(label) ==
    CASE label = "scan" -> pc' = "scan" /\ stage' = "classify" /\ exit_code' = exit_code
      [] label = "fetch_retry" -> pc' = "fetch_retry" /\ UNCHANGED <<stage, exit_code>>
      [] label = "exited" -> Exit(1) /\ stage' = stage

\* fetch_index_html, first attempt
FetchIndex ==
    /\ pc = "fetch_index"
    /\ \E resp \in IndexResponses :
          /\ index_resp' = Some(resp)
          /\ FetchGoto(after_try(resp))
    /\ UNCHANGED fetch_unchanged

\* fetch_index_html, the attempt after a read timeout
FetchIndexRetry ==
    /\ pc = "fetch_retry"
    /\ \E resp \in IndexResponses :
          /\ index_resp' = Some(resp)
          /\ FetchGoto(after_except(resp))
    /\ UNCHANGED fetch_unchanged

\* the loop moves on: the finished validate_or_resolve_zip_url call is history
ForgetCall ==
    /\ absolute_url' = None
    /\ candidate_year' = None
    /\ zip_url' = None
    /\ reqs' = <<>>
    /\ doc_soup' = None

scan_unchanged ==
    <<exit_code, todo, target_year, outdir_exists, files, files_at_start, index_resp,
      latest, download_url, out_path, dl_requests, downloaded, reported, returned,
      unit_vars>>

\* the document holds a section heading next
ReadHeading ==
    /\ pc = "scan"
    /\ n_elems < MaxPage
    /\ \E h \in Headings : headings' = Append(headings, h)
    /\ n_elems' = n_elems + 1
    /\ a' = None
    /\ UNCHANGED <<absolute_url, zip_url, reqs, doc_soup, candidate_year>>
    /\ UNCHANGED scan_unchanged
    /\ UNCHANGED <<pc, stage, classified, zip_items, candidates>>

\* collect_year_zip_links: an anchor that is no document link or is of another year
CollectSkip ==
    /\ pc = "scan"
    /\ n_elems < MaxPage
    /\ \E x \in Anchors :
          /\ \/ ~is_zip_like_href(x.href)
             \/ other_year(link_year(x, headings), target_year)
          /\ a' = Some(x)
    /\ n_elems' = n_elems + 1
    /\ stage' = "classify"
    /\ UNCHANGED <<absolute_url, zip_url, reqs, doc_soup, candidate_year>>
    /\ UNCHANGED scan_unchanged
    /\ UNCHANGED <<pc, headings, classified, zip_items, candidates>>

\* collect_year_zip_links: an anchor of the target year; its URL is probed next
CollectCandidate ==
    /\ pc = "scan"
    /\ n_elems < MaxPage
    /\ \E x \in Anchors :
          /\ is_zip_like_href(x.href)
          /\ ~other_year(link_year(x, headings), target_year)
          /\ candidate_year' = link_year(x, headings)
          /\ absolute_url' = Some(urljoin(FSA_PAGE, x.href))
          /\ a' = Some(x)
    /\ n_elems' = n_elems + 1
    /\ classified' = classified + 1
    /\ zip_url' = None
    /\ reqs' = <<>>
    /\ doc_soup' = None
    /\ candidates' = <<>>
    /\ stage' = "resolve"
    /\ pc' = "v_head"
    /\ UNCHANGED scan_unchanged
    /\ UNCHANGED <<headings, zip_items>>

-----------------------------------------------------------------------------
(* validate_or_resolve_zip_url and resolve_document_download_url *)

\* one request of the running call: good says the response was OK and
\* validate_zip_headers_like_zip accepted it, by_headers that its Content-Type or
\* Content-Disposition named a zip
Request(verb, url, stream, resp) ==
    [verb |-> verb, url |-> url, stream |-> stream,
     good |-> ok(resp) /\ validate_zip_headers_like_zip(resp, url),
     by_headers |-> HeadersSayZip(resp)]

probe_unchanged ==
    <<exit_code, todo, target_year, outdir_exists, files, files_at_start, stage,
      index_resp,
      headings, n_elems, classified, candidate_year, zip_items, absolute_url,
      latest, download_url, out_path,
      dl_requests, downloaded, reported, returned, unit_vars>>

\* validate_or_resolve_zip_url returns zurl to collect_year_zip_links
Return(zurl) ==
    /\ zip_url' = zurl
    /\ candidates' = <<>>
    /\ pc' = "returned"

Goto(label, cands) ==
    /\ pc' = label
    /\ candidates' = cands
    /\ UNCHANGED zip_url

\* every URL tried as a landing page once the direct probes are over
always_landing(url) == Goto("r_get", <<>>)

\* the direct probes are over: only a URL under /documents/ is tried as a landing page
AfterDirectProbe(url) ==
    IF DOCS_PATH_PAT(url) THEN Goto("r_get", <<>>) ELSE Return(None)

\* a HEAD test that never passes
head_rejects_all(resp, url) == FALSE

\* h.status_code < 400 and h.ok and validate_zip_headers_like_zip(h, absolute_url)

head_accepts(resp, url) ==
    ~resp.exc /\ resp.status_code < 400 /\ ok(resp) /\ validate_zip_headers_like_zip(resp, url)

get_accepts(resp, url) ==
    ~resp.exc /\ ok(resp) /\ validate_zip_headers_like_zip(resp, url)

ValidateHead ==
    /\ pc = "v_head"
    /\ \E resp \in Responses :
          /\ reqs' = Append(reqs, Request("HEAD", absolute_url[1], FALSE, resp))
          /\ IF resp.exc THEN AfterDirectProbe(absolute_url[1])
             ELSE IF head_accepts(resp, absolute_url[1]) THEN Return(absolute_url)
             ELSE Goto("v_get", <<>>)
    /\ UNCHANGED doc_soup
    /\ a' = None
    /\ UNCHANGED probe_unchanged

ValidateGet ==
    /\ pc = "v_get"
    /\ \E resp \in Responses :
          /\ reqs' = Append(reqs, Request("GET", absolute_url[1], TRUE, resp))
          /\ IF get_accepts(resp, absolute_url[1]) THEN Return(absolute_url)
             ELSE AfterDirectProbe(absolute_url[1])
    /\ UNCHANGED doc_soup
    /\ a' = None
    /\ UNCHANGED probe_unchanged

\* resolve_document_download_url: fetch the landing page and collect its anchors
ResolveGet ==
    /\ pc = "r_get"
    /\ \E resp \in Responses :
          /\ reqs' = Append(reqs, Request("GET", absolute_url[1], FALSE, resp))
          /\ IF resp.exc THEN Return(None) /\ UNCHANGED doc_soup
             ELSE IF ok(resp) /\ validate_zip_headers_like_zip(resp, absolute_url[1])
                  THEN Return(absolute_url) /\ UNCHANGED doc_soup
             ELSE IF ~ok(resp) THEN Return(None) /\ UNCHANGED doc_soup
             ELSE \E body \in LandingBodies :
                     LET found == landing_candidates(absolute_url[1], body)
                     IN /\ doc_soup' = Some(body)
                        /\ IF found = <<>> THEN Return(None) ELSE Goto("c_head", found)
    /\ a' = None
    /\ UNCHANGED probe_unchanged

\* an exception of a candidate probe leaving the call instead of being caught
probe_error_escapes == pc' = "exited" /\ candidates' = <<>> /\ UNCHANGED zip_url

\* except Exception: continue, or the candidate did not validate
NextCandidate ==
    IF Tail(candidates) = <<>> THEN Return(None) ELSE Goto("c_head", Tail(candidates))

CandidateHead ==
    /\ pc = "c_head"
    /\ \E resp \in Responses :
          /\ reqs' = Append(reqs, Request("HEAD", Head(candidates), FALSE, resp))
          /\ IF resp.exc THEN NextCandidate
             ELSE IF \/ resp.status_code >= 400
                     \/ ~ok(resp)
                     \/ ~validate_zip_headers_like_zip(resp, Head(candidates))
                  THEN Goto("c_get", candidates)
             ELSE Return(Some(Head(candidates)))
    /\ doc_soup' = None
    /\ a' = None
    /\ UNCHANGED probe_unchanged

CandidateGet ==
    /\ pc = "c_get"
    /\ \E resp \in Responses :
          /\ reqs' = Append(reqs, Request("GET", Head(candidates), TRUE, resp))
          /\ IF resp.exc THEN NextCandidate
             ELSE IF ok(resp) /\ validate_zip_headers_like_zip(resp, Head(candidates))
                  THEN Return(Some(Head(candidates)))
             ELSE NextCandidate
    /\ doc_soup' = None
    /\ a' = None
    /\ UNCHANGED probe_unchanged

\* the record put in front of the list
results_prepend(results, item) == <<item>> \o results

\* results.append(...)
results_append(results, item) == Append(results, item)

\* collect_year_zip_links drops the anchor when the call returned None and
\* appends its record otherwise, then goes on to the next anchor
CollectResult ==
    /\ pc = "returned"
    /\ IF zip_url = None THEN zip_items' = zip_items
       ELSE \E context_text \in ContextTexts :
               zip_items' = results_append(zip_items,
                                           ResolvedItem(candidate_year, zip_url[1],
                                                        parse_date_from_text(context_text)))
    /\ pc' = "scan"
    /\ stage' = "classify"
    /\ a' = None
    /\ ForgetCall
    /\ UNCHANGED scan_unchanged
    /\ UNCHANGED <<headings, n_elems, classified, candidates>>

-----------------------------------------------------------------------------
(* main() after collect_year_zip_links, and stream_download *)

main_unchanged ==
    <<todo, target_year, outdir_exists, files, files_at_start, index_resp, headings, n_elems,
      classified, zip_items, candidates, dl_requests, downloaded, returned, unit_vars>>

\* the document is read to its end and no record was collected
MainNoItems ==
    /\ pc = "scan"
    /\ zip_items = <<>>
    /\ reported' = Some(all_years(headings))
    /\ Exit(2)
    /\ a' = None
    /\ UNCHANGED <<absolute_url, zip_url, reqs, doc_soup, candidate_year>>
    /\ UNCHANGED main_unchanged
    /\ UNCHANGED <<stage, latest, download_url, out_path>>

\* the document is read to its end: pick the latest record and name the output file
MainSelect ==
    /\ pc = "scan"
    /\ zip_items # <<>>
    /\ latest' = choose_latest_for_year(zip_items)
    /\ stage' = "select"
    /\ IF latest' = None
       THEN /\ Exit(3)
            /\ UNCHANGED <<download_url, out_path>>
       ELSE /\ download_url' = Some(latest'[1].url)
            /\ out_path' = Some(path_join(outdir,
                                descriptive_filename(target_year[1], latest'[1].asof)))
            /\ pc' = "download"
            /\ UNCHANGED exit_code
    /\ a' = None
    /\ UNCHANGED <<absolute_url, zip_url, reqs, doc_soup, candidate_year>>
    /\ UNCHANGED main_unchanged
    /\ UNCHANGED reported

download_unchanged ==
    <<todo, target_year, outdir_exists, files_at_start, index_resp, headings, n_elems,
      a, classified, candidate_year, zip_items, absolute_url, zip_url, candidates, reqs, doc_soup, latest,
      download_url, out_path, reported, unit_vars>>

\* the Content-Length header of the download response: absent, a number, or
\* text that int() rejects with a ValueError
ContentLengths == {"absent", "number", "malformed"}

\* open(out_path, "wb"): the file is created, or emptied when it exists
open_wb(fs, path) == [fs EXCEPT ![path] = Some(0)]

\* the file opened whether or not the checks of the response passed
open_before_checks(fs, path, passed) == open_wb(fs, path)

\* the directory after the request of stream_download: the with open(...)
\* statement is reached once raise_for_status() and int() have passed
open_after_checks(fs, path, passed) == IF passed THEN open_wb(fs, path) ELSE fs

\* stream_download: the GET raises, or raise_for_status() does, or int() does
DownloadFails ==
    /\ pc = "download"
    /\ \E resp \in Responses, content_length \in ContentLengths :
          resp.exc \/ ~ok(resp) \/ content_length = "malformed"
    /\ dl_requests' = dl_requests + 1
    /\ stage' = "download"
    /\ Exit(1)
    /\ files' = open_after_checks(files, out_path[1], FALSE)
    /\ UNCHANGED download_unchanged
    /\ UNCHANGED <<downloaded, returned>>

\* stream_download: the status is fine; open(out_path, "wb") creates or truncates
DownloadOpens ==
    /\ pc = "download"
    /\ \E resp \in Responses, content_length \in ContentLengths :
          ok(resp) /\ content_length # "malformed"
    /\ dl_requests' = dl_requests + 1
    /\ stage' = "stream"
    /\ files' = open_after_checks(files, out_path[1], TRUE)
    /\ downloaded' = 0
    /\ pc' = "stream"
    /\ UNCHANGED download_unchanged
    /\ UNCHANGED <<exit_code, returned>>

\* a non-empty part of the body is written
StreamChunk ==
    /\ pc = "stream"
    /\ downloaded < MaxChunks
    /\ downloaded' = downloaded + 1
    /\ files' = [files EXCEPT ![out_path[1]] = Some(downloaded + 1)]
    /\ UNCHANGED download_unchanged
    /\ UNCHANGED <<pc, exit_code, stage, dl_requests, returned>>

\* the connection breaks while the body is read
StreamRaises ==
    /\ pc = "stream"
    /\ Exit(1)
    /\ UNCHANGED download_unchanged
    /\ UNCHANGED <<files, stage, dl_requests, downloaded, returned>>

\* the body ends; main() checks the size of the file
StreamEnd ==
    /\ pc = "stream"
    /\ stage' = "verify"
    /\ LET checked == verify_download(files, out_path[1])
       IN /\ files' = checked.files
          /\ IF checked.exit # None
             THEN /\ Exit(checked.exit[1])
                  /\ UNCHANGED returned
             ELSE /\ returned' = returned \cup {target_year[1]}
                  /\ pc' = "loop"
                  /\ UNCHANGED exit_code
    /\ UNCHANGED download_unchanged
    /\ UNCHANGED <<dl_requests, downloaded>>

Next ==
    \/ LoopNext
    \/ LoopEnd
    \/ FetchIndex
    \/ FetchIndexRetry
    \/ ReadHeading
    \/ CollectSkip
    \/ CollectCandidate
    \/ ValidateHead
    \/ ValidateGet
    \/ ResolveGet
    \/ CandidateHead
    \/ CandidateGet
    \/ CollectResult
    \/ MainNoItems
    \/ MainSelect
    \/ DownloadFails
    \/ DownloadOpens
    \/ StreamChunk
    \/ StreamRaises
    \/ StreamEnd

Spec == Init /\ [][Next]_vars

\* one call of main(): the range holds a single year
InitMain ==
    /\ pc = "loop"
    /\ exit_code = None
    /\ todo = <<StartYear>>
    /\ target_year = None
    /\ outdir_exists \in BOOLEAN
    /\ files \in (IF outdir_exists THEN {NoFiles, OldFiles} ELSE {NoFiles})
    /\ files_at_start = files
    /\ stage = "idle"
    /\ index_resp = None
    /\ headings = <<>>
    /\ n_elems = 0
    /\ a = None
    /\ classified = 0
    /\ candidate_year = None
    /\ zip_items = <<>>
    /\ absolute_url = None
    /\ zip_url = None
    /\ candidates = <<>>
    /\ reqs = <<>>
    /\ doc_soup = None
    /\ latest = None
    /\ download_url = None
    /\ out_path = None
    /\ dl_requests = 0
    /\ downloaded = 0
    /\ reported = None
    /\ returned = {}
    /\ calls = 0
    /\ context = None
    /\ asof_dt = None
    /\ retry = None
    /\ request = None

SpecMain == InitMain /\ [][Next]_vars

-----------------------------------------------------------------------------
(* choose_latest_for_year on its own *)

SelectUrls == {"/files/a.zip", "/documents/1"}
SelectItems == {ResolvedItem(Some(StartYear), u, d) : u \in SelectUrls, d \in OptDate}

InitSelect ==
    /\ pc = "select"
    /\ zip_items \in SeqsUpTo(SelectItems, MaxItems)
    /\ latest = None
    /\ calls = 0
    /\ context = None
    /\ asof_dt = None
    /\ retry = None
    /\ request = None
    /\ exit_code = None
    /\ todo = <<>>
    /\ target_year = Some(StartYear)
    /\ outdir_exists = TRUE
    /\ files = NoFiles
    /\ files_at_start = NoFiles
    /\ stage = "classify"
    /\ index_resp = Some([exc |-> "", status_code |-> 200])
    /\ headings = <<>>
    /\ n_elems = 0
    /\ a = None
    /\ classified = Len(zip_items)
    /\ candidate_year = None
    /\ absolute_url = None
    /\ zip_url = None
    /\ candidates = <<>>
    /\ reqs = <<>>
    /\ doc_soup = None
    /\ download_url = None
    /\ out_path = None
    /\ dl_requests = 0
    /\ downloaded = 0
    /\ reported = None
    /\ returned = {}

\* latest = choose_latest_for_year(zip_items); the list itself is left as it was
SelectCall ==
    /\ pc = "select"
    /\ calls < MaxCalls
    /\ latest' = choose_latest_for_year(zip_items)
    /\ calls' = calls + 1
    /\ UNCHANGED <<pc, exit_code, todo, target_year, outdir_exists, files,
                   files_at_start, stage, index_resp, headings, n_elems, a, classified,
                   candidate_year,
                   zip_items, absolute_url, zip_url, candidates, reqs, doc_soup, download_url,
                   out_path,
                   dl_requests, downloaded, reported, returned, context, asof_dt,
                   retry, request>>

NextSelect == SelectCall

SpecSelect == InitSelect /\ [][NextSelect]_vars

-----------------------------------------------------------------------------
(* parse_date_from_text on its own *)

\* the variables of the run of the script
run_vars ==
    <<pc, exit_code, todo, target_year, outdir_exists, files, files_at_start,
      stage, index_resp, headings, n_elems, a, classified, candidate_year, zip_items,
      absolute_url, zip_url, candidates, reqs, doc_soup, latest, download_url,
      out_path,
      dl_requests, downloaded, reported, returned>>

\* no run of the script: every variable of the run is at rest
NoRun ==
    /\ exit_code = None
    /\ todo = <<>>
    /\ target_year = None
    /\ outdir_exists = TRUE
    /\ files = NoFiles
    /\ files_at_start = NoFiles
    /\ stage = "idle"
    /\ index_resp = None
    /\ headings = <<>>
    /\ n_elems = 0
    /\ a = None
    /\ classified = 0
    /\ candidate_year = None
    /\ zip_items = <<>>
    /\ absolute_url = None
    /\ zip_url = None
    /\ candidates = <<>>
    /\ reqs = <<>>
    /\ doc_soup = None
    /\ latest = None
    /\ download_url = None
    /\ out_path = None
    /\ dl_requests = 0
    /\ downloaded = 0
    /\ reported = None
    /\ returned = {}

InitParse ==
    /\ pc = "parse"
    /\ NoRun
    /\ calls = 0
    /\ context \in Texts
    /\ asof_dt = None
    /\ retry = None
    /\ request = None

\* asof_dt = parse_date_from_text(context_text)
ParseCall ==
    /\ pc = "parse"
    /\ calls < MaxCalls
    /\ asof_dt' = parse_date_from_text(context)
    /\ calls' = calls + 1
    /\ UNCHANGED <<run_vars, context, retry, request>>

NextParse == ParseCall

SpecParse == InitParse /\ [][NextParse]_vars

-----------------------------------------------------------------------------
(* One http_get or http_head call through the session of get_session *)

\* the arguments of Retry(...) in get_session
total == 8
connect == 5
read == 5
status_forcelist == {429, 500, 502, 503, 504}
allowed_methods == {"GET", "HEAD"}
raise_on_status == FALSE
respect_retry_after_header == TRUE

\* the statuses for which Retry honours a Retry-After header
RETRY_AFTER_STATUS_CODES == {413, 429, 503}

\* what an attempt ends with: an error while connecting, while reading, or of
\* another kind (TLS), or a response with its status and maybe a Retry-After
Errors == {"connect", "read", "other"}
Statuses == {200, 404, 413} \cup status_forcelist
Outcomes ==
    {[error |-> e, status |-> 0, retry_after |-> FALSE] : e \in Errors}
        \cup [error : {""}, status : Statuses, retry_after : BOOLEAN]

\* a Retry that takes every error status for one to retry
retry_every_error(method, counters, outcome) ==
    method \in allowed_methods /\ outcome.status >= 400

\* Retry.is_retry: the status is listed, or it is one of those a Retry-After
\* header makes retryable and the response carries the header
is_retry(method, counters, outcome) ==
    /\ method \in allowed_methods
    /\ \/ outcome.status \in status_forcelist
       \/ /\ counters.total # 0
          /\ respect_retry_after_header
          /\ outcome.retry_after
          /\ outcome.status \in RETRY_AFTER_STATUS_CODES

\* Retry.increment: total goes down by one, and so does the counter of the
\* error's kind
increment(counters, outcome) ==
    [total |-> counters.total - 1,
     connect |-> IF outcome.error = "connect" THEN counters.connect - 1 ELSE counters.connect,
     read |-> IF outcome.error = "read" THEN counters.read - 1 ELSE counters.read]

is_exhausted(counters) == counters.total < 0 \/ counters.connect < 0 \/ counters.read < 0

\* what the call hands to its caller: an exception, or the response
Raises == [raised |-> TRUE, status |-> 0]
Responds(outcome) == [raised |-> FALSE, status |-> outcome.status]

InitRetry ==
    /\ pc = "request"
    /\ NoRun
    /\ calls = 0
    /\ context = None
    /\ asof_dt = None
    /\ retry = [total |-> total, connect |-> connect, read |-> read]
    /\ request \in [method : allowed_methods, attempts : {0}, last : {None}, result : {None}]

\* one attempt of the request: it ends the call with a response or an
\* exception, or Retry lets the adapter try again
Attempt ==
    /\ pc = "request"
    /\ request.result = None
    /\ \E outcome \in Outcomes :
          LET again == increment(retry, outcome)
              sent == [request EXCEPT !.attempts = @ + 1, !.last = Some(outcome)]
          IN IF outcome.error # ""
             THEN \* a read error of a method that is not allowed is raised at once
                  IF outcome.error = "read" /\ request.method \notin allowed_methods
                  THEN retry' = retry /\ request' = [sent EXCEPT !.result = Some(Raises)]
                  ELSE IF is_exhausted(again)
                  THEN retry' = again /\ request' = [sent EXCEPT !.result = Some(Raises)]
                  ELSE retry' = again /\ request' = sent
             ELSE IF is_retry(request.method, retry, outcome)
             THEN IF is_exhausted(again)
                  THEN /\ retry' = again
                       /\ request' = [sent EXCEPT !.result =
                                         IF raise_on_status THEN Some(Raises)
                                         ELSE Some(Responds(outcome))]
                  ELSE retry' = again /\ request' = sent
             ELSE retry' = retry /\ request' = [sent EXCEPT !.result = Some(Responds(outcome))]
    /\ UNCHANGED <<run_vars, calls, context, asof_dt>>

NextRetry == Attempt

SpecRetry == InitRetry /\ [][NextRetry]_vars

-----------------------------------------------------------------------------
(* Properties of choose_latest_for_year, checked under SpecSelect *)

Called == pc = "select" /\ calls > 0

DatedIndexes == {i \in DOMAIN zip_items : zip_items[i].asof # None}

\* the positions of the entries that carry the latest as-of date
LatestIndexes ==
    {i \in DatedIndexes :
        \A j \in DatedIndexes : zip_items[j].asof[1] <= zip_items[i].asof[1]}

Min(S) == CHOOSE x \in S : \A y \in S : x <= y
Max(S) == CHOOSE x \in S : \A y \in S : y <= x

\* C1: when some entry of the list is dated, the entry returned is an entry of
\* the list, is dated, and no dated entry has a later date than it
C1_LatestDatedWins ==
    (Called /\ DatedIndexes # {}) =>
        /\ latest # None
        /\ \E i \in DatedIndexes : zip_items[i] = latest[1]
        /\ latest[1].asof # None
        /\ \A j \in DatedIndexes : zip_items[j].asof[1] <= latest[1].asof[1]

\* an undated entry first, the latest date in the middle, an older one last
C1_Witness ==
    /\ Called
    /\ Len(zip_items) = 3
    /\ zip_items[1].asof = None
    /\ zip_items[2].asof = Some(2)
    /\ zip_items[3].asof = Some(1)
    /\ latest = Some(zip_items[2])

\* C2 as stated: of several entries sharing the latest date, the one that comes
\* first in the list is returned
C2_FirstTiedReturned ==
    (Called /\ Cardinality(LatestIndexes) >= 2) =>
        latest = Some(zip_items[Min(LatestIndexes)])

\* C2 amended: of several entries sharing the latest date, the one that comes
\* last in the list is returned
C2_LastTiedReturned ==
    (Called /\ Cardinality(LatestIndexes) >= 2) =>
        latest = Some(zip_items[Max(LatestIndexes)])

\* two different entries share the latest date
C2_Witness ==
    /\ Called
    /\ Cardinality(LatestIndexes) >= 2
    /\ zip_items[Min(LatestIndexes)] # zip_items[Max(LatestIndexes)]
    /\ latest = Some(zip_items[Max(LatestIndexes)])

\* C3: when the list is not empty and no entry is dated, every call returns
\* the first entry of the list
C3_UndatedFirst ==
    (Called /\ zip_items # <<>> /\ DatedIndexes = {}) => latest = Some(zip_items[1])

\* the second call on a list of different undated entries
C3_Witness ==
    /\ Called
    /\ calls >= 2
    /\ Len(zip_items) >= 2
    /\ DatedIndexes = {}
    /\ zip_items[1] # zip_items[Len(zip_items)]
    /\ latest = Some(zip_items[1])

-----------------------------------------------------------------------------
(* Properties of one main() call and of the batch run *)

\* the direct probes of the call: the HEAD and the streamed GET of absolute_url
DirectProbe(r) ==
    /\ absolute_url # None
    /\ r.url = absolute_url[1]
    /\ r.verb = "HEAD" \/ r.stream

\* C4 as stated: a URL returned by validate_or_resolve_zip_url was named a zip by
\* the Content-Type or Content-Disposition of an OK response to that URL
C4_ConfirmedByHeaders ==
    (pc = "returned" /\ zip_url # None) =>
        \E i \in DOMAIN reqs : reqs[i].url = zip_url[1] /\ reqs[i].by_headers

\* C5 as stated: whatever ends a year's cycle, the later years of the range are
\* still processed, so the run ends only when no year is left
C5_LaterYearsProcessed == pc = "exited" => todo = <<>>

\* C6: when the body of the download ended without a byte, main exits with
\* status 4 and there is no file at out_path
C6_EmptyDownloadFails ==
    (stage = "verify" /\ downloaded = 0) =>
        /\ pc = "exited"
        /\ exit_code = Some(4)
        /\ files[out_path[1]] = None

\* an empty download onto a file an earlier run left at out_path
C6_Witness ==
    /\ stage = "verify"
    /\ downloaded = 0
    /\ files_at_start[out_path[1]] # None
    /\ exit_code = Some(4)

\* C7: when main returned normally, the file at out_path exists and is not empty
C7_SuccessHasFile ==
    (stage = "verify" /\ target_year # None /\ target_year[1] \in returned) =>
        /\ out_path # None
        /\ files[out_path[1]] # None
        /\ files[out_path[1]][1] > 0

C7_Witness ==
    /\ pc = "loop"
    /\ stage = "verify"
    /\ target_year[1] \in returned
    /\ files[out_path[1]] = Some(downloaded)

\* C8 as stated: exit status 2 is given only when no anchor of the page was a
\* candidate of the year, and a cycle whose candidates were all dropped in
\* resolution ends with status 3
C8_OwnSignalPerOutcome ==
    /\ exit_code = Some(2) => classified = 0
    /\ (pc = "exited" /\ classified > 0 /\ zip_items = <<>>) => exit_code = Some(3)

CropYearHeadings == {i \in DOMAIN headings : headings[i].crop_year /\ headings[i].year # None}

\* C9: a cycle that collected no record ends with exit status 2; no download
\* was requested, the files are as they were, and the years reported are those
\* of the "crop year" headings, so every other year with such a heading is listed
C9_NoCandidatesReported ==
    /\ (pc = "exited" /\ stage \in {"classify", "resolve"}) =>
          /\ zip_items = <<>>
          /\ exit_code = Some(2)
    /\ exit_code = Some(2) =>
          /\ zip_items = <<>>
          /\ dl_requests = 0
          /\ out_path = None
          /\ files = files_at_start
          /\ reported # None
          /\ \A i \in CropYearHeadings : headings[i].year[1] \in reported[1]
          /\ \A y \in reported[1] : \E i \in CropYearHeadings : headings[i].year = Some(y)

\* no record for the target year, and a "crop year" heading of another year
C9_Witness ==
    /\ exit_code = Some(2)
    /\ classified > 0
    /\ \E i \in CropYearHeadings : headings[i].year # target_year
    /\ \E y \in reported[1] : Some(y) # target_year

\* C10: once a direct probe of the URL got an OK response that classifies as
\* zip, the call has returned that URL and the probe was its last request: the
\* call made direct probes only
C10_DirectHitReturnsUrl ==
    \A i \in DOMAIN reqs :
        (reqs[i].good /\ DirectProbe(reqs[i])) =>
            /\ pc = "returned"
            /\ zip_url = absolute_url
            /\ Len(reqs) = i
            /\ \A j \in DOMAIN reqs : DirectProbe(reqs[j])

\* a URL under /documents/ that the streamed GET fallback found to be the zip
C10_Witness ==
    /\ pc = "returned"
    /\ absolute_url # None
    /\ DOCS_PATH_PAT(absolute_url[1])
    /\ Len(reqs) = 2
    /\ reqs[2].verb = "GET"
    /\ reqs[2].stream
    /\ reqs[2].good
    /\ zip_url = absolute_url

-----------------------------------------------------------------------------
(* Properties of the landing-page step of validate_or_resolve_zip_url *)

\* the fetch of absolute_url as an HTML page
LandingFetches == {i \in DOMAIN reqs : reqs[i].verb = "GET" /\ ~reqs[i].stream}

\* the probes of the candidates found on the landing page
LandingProbes == {i \in DOMAIN reqs : \E j \in LandingFetches : j < i}

SaysDownloadOrZip(la) == la.text_download \/ HrefHasDownload(la.href) \/ EndsWithZip(la.href)

\* the positions in the parsed page of the anchors that lead to u and pass the test
DownloadAnchorsTo(u) ==
    {n \in DOMAIN doc_soup[1] : SaysDownloadOrZip(doc_soup[1][n]) /\ doc_soup[1][n].href = u}

\* the candidates of a parsed page are the URLs of its download or zip anchors,
\* each once, in the order of their first anchor
C11_CandidatesOfPage ==
    doc_soup # None =>
        /\ \A k \in DOMAIN candidates : DownloadAnchorsTo(candidates[k]) # {}
        /\ \A n \in DOMAIN doc_soup[1] :
              SaysDownloadOrZip(doc_soup[1][n]) =>
                  \E k \in DOMAIN candidates : candidates[k] = doc_soup[1][n].href
        /\ \A k1, k2 \in DOMAIN candidates :
              k1 < k2 => Min(DownloadAnchorsTo(candidates[k1])) < Min(DownloadAnchorsTo(candidates[k2]))
        /\ candidates = <<>> <=> pc = "returned"
        /\ pc = "returned" => zip_url = None

\* every URL is probed once, HEAD first and GET only after its HEAD failed; a
\* probe that validates ends the call, which returns the probed URL
C11_ProbesOfCall ==
    /\ \A i \in LandingProbes :
          /\ reqs[i].verb = "HEAD" =>
                \A j \in LandingProbes : j < i => reqs[j].url # reqs[i].url
          /\ reqs[i].verb = "GET" =>
                /\ reqs[i].stream
                /\ i - 1 \in LandingProbes
                /\ reqs[i - 1].verb = "HEAD"
                /\ reqs[i - 1].url = reqs[i].url
                /\ ~reqs[i - 1].good
          /\ reqs[i].good =>
                /\ i = Len(reqs)
                /\ pc = "returned"
                /\ zip_url = Some(reqs[i].url)
          /\ pc = "c_head" => \A k \in DOMAIN candidates : candidates[k] # reqs[i].url
    /\ (pc = "returned" /\ LandingProbes # {} /\ zip_url # None) => Last(reqs).good
    /\ (pc = "returned" /\ LandingProbes # {} /\ zip_url = None) =>
          \A i \in LandingProbes : ~reqs[i].good

\* a probe of the landing-page step goes to the first candidate not yet done
\* with, and the candidates left keep their order
C11_ProbeStep ==
    pc \in {"c_head", "c_get"} =>
        /\ Len(reqs') = Len(reqs) + 1
        /\ Last(reqs').url = Head(candidates)
        /\ Last(reqs').verb = (IF pc = "c_head" THEN "HEAD" ELSE "GET")
        /\ candidates' \in {candidates, Tail(candidates), <<>>}

\* C11: the landing-page step probes only the URLs of anchors whose text or
\* href says download or whose href ends in zip, in the order the page has
\* them and each once, HEAD before GET, and returns the first that validates;
\* the URL of an anchor that passes none of the tests is no candidate
C11_LandingProbesInOrder ==
    /\ []C11_CandidatesOfPage
    /\ []C11_ProbesOfCall
    /\ [][C11_ProbeStep]_vars

\* two URLs were probed: the first failed on HEAD and on GET, the second
\* validated on its HEAD and was returned
C11_Witness ==
    /\ pc = "returned"
    /\ Cardinality(LandingProbes) = 3
    /\ reqs[Len(reqs) - 2].verb = "HEAD"
    /\ reqs[Len(reqs) - 1].verb = "GET"
    /\ reqs[Len(reqs) - 1].url # reqs[Len(reqs)].url
    /\ reqs[Len(reqs)].verb = "HEAD"
    /\ zip_url = Some(Last(reqs).url)

\* no request of the call was answered by an OK response that classifies as zip
NothingValidated == \A i \in DOMAIN reqs : ~reqs[i].good

\* while a candidate is being resolved the process does not end, and a call
\* none of whose requests validated returns None
C12_CallReturnsNone ==
    /\ stage = "resolve" => (pc # "exited" /\ exit_code = None)
    /\ (pc = "returned" /\ NothingValidated) => zip_url = None

\* a call that returned None adds no record, and the loop reads on
C12_DropStep ==
    (pc = "returned" /\ zip_url = None) =>
        /\ zip_items' = zip_items
        /\ pc' = "scan"
        /\ n_elems' = n_elems
        /\ exit_code' = None

\* C12: whatever the probes and the landing-page fetch are answered with (an
\* exception, a response that is not OK, one that is no zip),
\* validate_or_resolve_zip_url raises nothing and returns None, the anchor gets
\* no record and collect_year_zip_links goes on with the next anchor
C12_FailureIsValue == []C12_CallReturnsNone /\ [][C12_DropStep]_vars

\* the HEAD of a /documents/ URL raised (no GET followed it), the landing page
\* had two candidates: both probes of the first got useless responses, the
\* HEAD of the second raised; the call returned None
C12_Witness ==
    /\ pc = "returned"
    /\ zip_url = None
    /\ DOCS_PATH_PAT(absolute_url[1])
    /\ Len(reqs) = 5
    /\ reqs[1].verb = "HEAD"
    /\ reqs[2].verb = "GET" /\ ~reqs[2].stream
    /\ reqs[3].verb = "HEAD"
    /\ reqs[4].verb = "GET" /\ reqs[4].url = reqs[3].url
    /\ reqs[5].verb = "HEAD" /\ reqs[5].url # reqs[3].url

\* C13: a call for a URL that is not under /documents/ makes the direct probes
\* only: it never fetches the URL as an HTML page, parses no anchors and probes
\* no candidate, and it returns None unless a direct probe validated
C13_LandingOnlyUnderDocuments ==
    (absolute_url # None /\ ~DOCS_PATH_PAT(absolute_url[1])) =>
        /\ pc \notin {"r_get", "c_head", "c_get"}
        /\ LandingFetches = {}
        /\ doc_soup = None
        /\ candidates = <<>>
        /\ \A i \in DOMAIN reqs : DirectProbe(reqs[i])
        /\ Len(reqs) <= 2
        /\ (pc = "returned" /\ NothingValidated) => zip_url = None

\* a URL outside /documents/ whose HEAD and streamed GET both failed: None is
\* returned after these two requests
C13_Witness ==
    /\ pc = "returned"
    /\ absolute_url # None
    /\ ~DOCS_PATH_PAT(absolute_url[1])
    /\ Len(reqs) = 2
    /\ reqs[1].verb = "HEAD"
    /\ reqs[2].verb = "GET" /\ reqs[2].stream
    /\ NothingValidated
    /\ zip_url = None

-----------------------------------------------------------------------------
(* Properties of the classification in collect_year_zip_links *)

\* the year of the nearest of the HeadingLimit headings before the anchor that
\* says "crop year" and names a year
NearestCropYear ==
    LET near == {i \in CropYearHeadings : i > Len(headings) - HeadingLimit}
    IN IF near = {} THEN None ELSE headings[Max(near)].year

\* the anchor just classified is a candidate: its URL is about to be probed
Kept == pc = "v_head"

\* C14: a document link is kept for the target year exactly when the first of
\* its year sources that yields a year yields the target year: the year at the
\* start of its own text, else the year of the nearest "crop year" heading,
\* else the first year token of its context.  So a link whose text starts
\* with a year is kept for that year and for no other, whatever the heading says
C14_TextYearFirst ==
    (a # None /\ is_zip_like_href(a[1].href)) =>
        /\ a[1].text_year # None => (Kept <=> a[1].text_year = target_year)
        /\ (a[1].text_year = None /\ NearestCropYear # None) =>
              (Kept <=> NearestCropYear = target_year)
        /\ (a[1].text_year = None /\ NearestCropYear = None) =>
              (Kept <=> a[1].year_hint = target_year)

\* a document link whose text starts with another year, under a "crop year"
\* heading of the target year: it is not kept
C14_Witness ==
    /\ a # None
    /\ is_zip_like_href(a[1].href)
    /\ a[1].text_year # None
    /\ a[1].text_year # target_year
    /\ NearestCropYear = target_year
    /\ pc = "scan"
    /\ classified = 0

\* the year of the anchor just classified: the first of its three sources that
\* yields one, None when none does
InferredYear ==
    IF a[1].text_year # None THEN a[1].text_year
    ELSE IF NearestCropYear # None THEN NearestCropYear
    ELSE a[1].year_hint

\* C15: every record of the result carries the target year, no URL is resolved
\* for another year, and an anchor whose inferred year is None or differs from
\* the target is passed over: no call is made for it and no record is pending
C15_OnlyTargetYearRecords ==
    /\ \A i \in DOMAIN zip_items : zip_items[i].year = target_year
    /\ stage = "resolve" => candidate_year = target_year
    /\ Len(zip_items) <= classified
    /\ (a # None /\ InferredYear # target_year) =>
          /\ pc = "scan"
          /\ absolute_url = None
          /\ candidate_year = None
          /\ reqs = <<>>

\* after one record was collected, a document link for which no source yields
\* a year is passed over
C15_Witness ==
    /\ Len(zip_items) = 1
    /\ zip_items[1].year = target_year
    /\ a # None
    /\ is_zip_like_href(a[1].href)
    /\ InferredYear = None
    /\ pc = "scan"

-----------------------------------------------------------------------------
(* Properties of parse_date_from_text, checked under SpecParse *)

Parsed == pc = "parse" /\ calls > 0

\* the month an abbreviated month token stands for
Abbreviations == ("Jan." :> 1) @@ ("Jan" :> 1) @@ ("Sept" :> 9) @@ ("Sept." :> 9)

\* C16 as stated: the call returns None for a text that is absent, empty or
\* without a well-formed date, and for a text whose one date phrase writes the
\* month as an abbreviation, with or without a period, it returns the date of
\* the month abbreviated
C16_AbbreviationsParsed ==
    Parsed =>
        /\ (context.is_none \/ context.empty \/ context.phrases = <<>>) => asof_dt = None
        /\ Len(context.phrases) = 1 =>
              LET ph == context.phrases[1]
              IN /\ (ph.month \in DOMAIN Abbreviations /\ ph.day <= DaysIn[Abbreviations[ph.month]]) =>
                        asof_dt = Some(DaysBefore[Abbreviations[ph.month]] + ph.day)
                 /\ (ph.month \in DOMAIN Abbreviations /\ ph.day > DaysIn[Abbreviations[ph.month]]) =>
                        asof_dt = None
                 /\ ph.month = "Smarch" => asof_dt = None

-----------------------------------------------------------------------------
(* Properties of the output file name *)

\* C18: the output directory exists once main has started, and the file
\* chosen for the download lies in it and is named by the target year and the
\* as-of date of the selected record alone: prefix, year, "_asof_" and the
\* date when the record has a date, prefix and year when it has none
C18_NameFromYearAndDate ==
    /\ target_year # None => outdir_exists
    /\ out_path # None =>
          /\ latest # None
          /\ out_path[1].dir = outdir
          /\ latest[1].asof # None =>
                out_path[1].name =
                    <<"usda_fsa_crop_acreage_by_crop_county", "_", target_year[1],
                      "_asof_", <<1, latest[1].asof[1]>>, ".zip">>
          /\ latest[1].asof = None =>
                out_path[1].name =
                    <<"usda_fsa_crop_acreage_by_crop_county", "_", target_year[1], ".zip">>

\* two records were collected, the second one dated: the file is named after
\* its date
C18_Witness ==
    /\ out_path # None
    /\ Len(zip_items) = 2
    /\ zip_items[1].asof = None
    /\ latest = Some(zip_items[2])
    /\ Len(out_path[1].name) = 6

-----------------------------------------------------------------------------
(* More on choose_latest_for_year, checked under SpecSelect *)

\* C19: the call returns None exactly when the list is empty, and an entry of
\* the list otherwise
C19_NoneIffEmpty ==
    Called =>
        /\ latest = None <=> zip_items = <<>>
        /\ zip_items # <<>> => \E i \in DOMAIN zip_items : latest = Some(zip_items[i])

\* the call on the empty list
C19_Witness ==
    /\ Called
    /\ zip_items = <<>>
    /\ latest = None

-----------------------------------------------------------------------------
(* The order of one cycle *)

\* the stages in the order of main(); collect_year_zip_links is one loop in
\* which every anchor is classified and, when kept, resolved before the next
StageRank(s) ==
    CASE s = "idle" -> 0
      [] s = "fetch" -> 1
      [] s \in {"classify", "resolve"} -> 2
      [] s = "select" -> 3
      [] s \in {"download", "stream"} -> 4
      [] s = "verify" -> 5

\* a step of a cycle: main() is running before it and after it
CycleStep == pc # "loop" /\ target_year' = target_year

\* the stages follow one another; a URL is resolved right after its anchor was
\* classified and the loop reads on only once the call has returned; a record
\* is appended at the end of the list, for the URL the call just returned; the
\* one streaming GET follows the selection and asks for the selected URL
C20_StageStep ==
    CycleStep =>
        /\ StageRank(stage') >= StageRank(stage)
        /\ (stage' = "resolve" /\ stage # "resolve") =>
              (stage = "classify" /\ pc = "scan" /\ classified' = classified + 1)
        /\ (stage = "resolve" /\ stage' # "resolve") =>
              (stage' = "classify" /\ pc = "returned")
        /\ n_elems' # n_elems => (pc = "scan" /\ absolute_url = None /\ reqs = <<>>)
        /\ zip_items' # zip_items =>
              /\ pc = "returned"
              /\ zip_url # None
              /\ zip_items' = Append(zip_items, Last(zip_items'))
              /\ Last(zip_items').url = zip_url[1]
        /\ dl_requests' # dl_requests =>
              /\ dl_requests = 0
              /\ dl_requests' = 1
              /\ stage = "select"
              /\ latest # None
              /\ download_url = Some(latest[1].url)

\* nothing is resolved after the selection; at most one streaming GET is made,
\* for a URL that a record of this cycle holds
C20_StageInv ==
    /\ StageRank(stage) >= 3 =>
          (absolute_url = None /\ reqs = <<>> /\ pc \in {"download", "stream", "loop", "exited"})
    /\ dl_requests <= 1
    /\ dl_requests = 1 =>
          /\ StageRank(stage) >= 4
          /\ \E i \in DOMAIN zip_items : zip_items[i].url = download_url[1]

\* C20: a cycle goes through fetch index, the classification and resolution of
\* the anchors one at a time in page order, selection, download and
\* verification in this order; the result list keeps the order of the anchors
\* and the streaming GET is made once, after the selection, for a URL that
\* validate_or_resolve_zip_url returned in this cycle
C20_StagesInOrder == []C20_StageInv /\ [][C20_StageStep]_vars

\* a cycle that kept two anchors with different URLs, downloaded the second
\* one's file and verified it
C20_Witness ==
    /\ stage = "verify"
    /\ Len(zip_items) = 2
    /\ zip_items[1].url # zip_items[2].url
    /\ download_url = Some(zip_items[2].url)
    /\ dl_requests = 1
    /\ pc = "loop"

-----------------------------------------------------------------------------
(* Properties of the retrying transport, checked under SpecRetry *)

\* the call is between two attempts: the last one failed and Retry lets the
\* adapter send the request again
Retrying == request # None /\ request.result = None /\ request.attempts > 0

ConnectionLevelFailure(outcome) == outcome.error # ""

\* C17 as stated: a request is sent again only when it is a GET or a HEAD and
\* the attempt ended with status 429, 500, 502, 503 or 504 or with a
\* connection-level failure; one request has a bounded number of attempts; and
\* once the retries are used up the caller gets an exception or a response that
\* is not OK.
C17_RetryOnlyOnListed ==
    /\ Retrying =>
          /\ request.method \in {"GET", "HEAD"}
          /\ \/ ConnectionLevelFailure(request.last[1])
             \/ request.last[1].status \in {429, 500, 502, 503, 504}
    /\ request # None => request.attempts <= total + 1
    /\ (request # None /\ request.result # None /\ is_exhausted(retry)) =>
          request.result[1].raised \/ request.result[1].status >= 400

\* C17 amended: as stated, with one more case in which the request is sent
\* again: a response with status 413 that carries a Retry-After header (as do
\* 429 and 503, which are listed anyway).
C17_RetryOnListedOrRetryAfter ==
    /\ Retrying =>
          /\ request.method \in {"GET", "HEAD"}
          /\ \/ ConnectionLevelFailure(request.last[1])
             \/ request.last[1].status \in {429, 500, 502, 503, 504}
             \/ request.last[1].status = 413 /\ request.last[1].retry_after
    /\ request # None => request.attempts <= total + 1
    /\ (request # None /\ request.result # None /\ is_exhausted(retry)) =>
          request.result[1].raised \/ request.result[1].status >= 400

\* C17 witness: the ninth attempt of a request ended with a listed status as
\* the eight before it ended with a failure too, and the caller got that
\* response
C17_Witness ==
    /\ request # None
    /\ request.attempts = total + 1
    /\ is_exhausted(retry)
    /\ request.result = Some([raised |-> FALSE, status |-> 503])

-----------------------------------------------------------------------------
(* The filter of collect_year_zip_links and the network *)

\* the href ends in zip or lies under /documents/
DocumentLink(href) == ZIP_ENDING_PAT(href) \/ DOCS_PATH_PAT(href)

\* the anchor just classified is no document link, or the year inferred for it
\* is not the target year
PassedOver == ~DocumentLink(a[1].href) \/ InferredYear # target_year

\* every request of the cycle so far belongs to a call made for a document
\* link of the target year
C21_RequestsForKeptOnly ==
    (reqs # <<>> \/ pc \in {"v_head", "v_get", "r_get", "c_head", "c_get"}) =>
        /\ absolute_url # None
        /\ DocumentLink(absolute_url[1])
        /\ candidate_year = target_year

\* the step that classifies an anchor issues no request and starts no call
\* when the anchor is passed over, and a call is started only by the step that
\* classifies an anchor that is not passed over
C21_FilterStep ==
    /\ (a' # None /\ PassedOver') =>
          /\ pc' = "scan"
          /\ reqs' = <<>>
          /\ absolute_url' = None
          /\ dl_requests' = dl_requests
    /\ (pc = "scan" /\ pc' = "v_head") =>
          /\ a' # None
          /\ ~PassedOver'
          /\ absolute_url' = Some(a'[1].href)
          /\ reqs' = <<>>

\* C21: collect_year_zip_links issues no HEAD and no GET for an anchor whose
\* href is neither zip-like nor under /documents/, or whose inferred year is
\* not the target year: the filter is over before the first request for an
\* anchor, and every request made belongs to an anchor that passed it.
C21_FilterBeforeNetwork == []C21_RequestsForKeptOnly /\ [][C21_FilterStep]_vars

\* C21 witness: after a record was collected through requests, an anchor of the
\* target year whose href is no document link is passed over without a request
C21_Witness ==
    /\ Len(zip_items) = 1
    /\ a # None
    /\ ~DocumentLink(a[1].href)
    /\ InferredYear = target_year
    /\ pc = "scan"
    /\ reqs = <<>>

-----------------------------------------------------------------------------
(* fetch_index_html and what follows a failed index fetch *)

ReadTimeout == [exc |-> "ReadTimeout", status_code |-> 0]

\* the attempt failed: an exception was raised or the status is not a 2xx one
FailedAttempt(resp) == resp.exc # "" \/ resp.status_code \notin 200 .. 299

\* nothing of the cycle after the index fetch has happened
NothingAfterFetch ==
    /\ stage = "fetch"
    /\ headings = <<>> /\ n_elems = 0 /\ a = None /\ classified = 0
    /\ absolute_url = None /\ reqs = <<>> /\ zip_items = <<>>
    /\ latest = None /\ out_path = None /\ dl_requests = 0
    /\ files = files_at_start

\* a second attempt is pending only after a first one that ended in a read
\* timeout; a failed attempt that is not such a first one ends the process
\* with nothing classified, probed or written; and a cycle that went past the
\* fetch got an OK response
C22_FetchInv ==
    /\ pc = "fetch_retry" => index_resp = Some(ReadTimeout) /\ NothingAfterFetch
    /\ (index_resp # None /\ FailedAttempt(index_resp[1]) /\ pc # "fetch_retry") =>
          /\ pc = "exited"
          /\ exit_code = Some(1)
          /\ NothingAfterFetch
    /\ stage \notin {"idle", "fetch"} =>
          index_resp # None /\ ~FailedAttempt(index_resp[1])

\* the index page is requested at two places only: the first attempt opens the
\* cycle, the second follows a first that ended in a read timeout, and after
\* the second attempt there is no further one in the cycle
C22_FetchStep ==
    /\ pc' = "fetch_index" => pc = "loop" /\ index_resp' = None
    /\ pc' = "fetch_retry" => pc = "fetch_index" /\ index_resp' = Some(ReadTimeout)
    /\ pc = "fetch_index" => pc' \in {"scan", "fetch_retry", "exited"}
    /\ pc = "fetch_retry" => pc' \in {"scan", "exited"}
    /\ index_resp' # index_resp => pc \in {"loop", "fetch_index", "fetch_retry"}

\* C22: fetch_index_html makes at most two attempts, the second only when the
\* first ended in a read timeout; every other failure of the first attempt and
\* every failure of the second one leaves main() as an exception, so that a
\* cycle whose index fetch failed classifies nothing, probes nothing and
\* writes no file.
C22_AtMostTwoIndexAttempts == []C22_FetchInv /\ [][C22_FetchStep]_vars

\* C22 witness: the second attempt ended in a read timeout too; the exception
\* ended the process and the files of the earlier run are as they were
C22_Witness ==
    /\ pc = "exited"
    /\ index_resp = Some(ReadTimeout)
    /\ exit_code = Some(1)
    /\ files = OldFiles

-----------------------------------------------------------------------------
(* stream_download and the destination file *)

\* the request of stream_download failed before any of the body was read
DownloadRequestFailed == pc = "exited" /\ stage = "download"

\* after a download request that raised, or was answered with a status that is
\* not a 2xx one, the output directory is as main() found it
C23_DirAsFound ==
    DownloadRequestFailed =>
        /\ dl_requests = 1
        /\ downloaded = 0
        /\ files = files_at_start

\* the step of the failing request leaves every file as it is, and the
\* destination is created or emptied only by the step whose response passed
\* the status check
C23_OpenStep ==
    /\ (pc = "download" /\ pc' = "exited") => files' = files
    /\ (pc = "download" /\ files' # files) =>
          /\ pc' = "stream"
          /\ stage' = "stream"
          /\ files' = [files EXCEPT ![out_path[1]] = Some(0)]
    /\ pc \notin {"download", "stream"} => files' = files

\* C23: stream_download opens the destination only after the status of the
\* response was checked: when the request raises or its status is refused, no
\* file is created at the destination and a file left there by an earlier run
\* is unchanged.
C23_OpenAfterStatusCheck == []C23_DirAsFound /\ [][C23_OpenStep]_vars

\* C23 witness: the download request failed, and the file an earlier run left
\* at the destination still has its size
C23_Witness ==
    /\ DownloadRequestFailed
    /\ out_path # None
    /\ files = OldFiles
    /\ files[out_path[1]] = Some(MaxChunks + 1)

=============================================================================
